---- MODULE Spec2Model ----
(***************************************************************************)
(* Content-delivery Telegram bot with an HTTP admin panel.                 *)
(*                                                                         *)
(* Two variants of the program are modelled side by side; `variant` is     *)
(* fixed by Init and never changes:                                        *)
(*   "webhook" : src/unnamed/part_000 lines 1-881 (persistent store,       *)
(*               webhook delivery, async callback handler)                 *)
(*   "polling" : src/index.js (in-memory only, default pages, synchronous  *)
(*               callback handler)                                         *)
(*                                                                         *)
(* JavaScript values are modelled as follows.                              *)
(*   - undefined / a missing property is the string Undef.                 *)
(*   - a plain object used as a map (botData) is a sequence of             *)
(*     [key, page] entries in insertion order (Object.keys order).         *)
(*   - an array of button rows is [def, length, at]: def = FALSE is a      *)
(*     missing `buttons` property, `at` maps property keys (integers) to   *)
(*     elements; a key in 0..length-1 that `at` lacks is a hole, a key     *)
(*     outside 0..length-1 is a non-index property of the array object.    *)
(*   - an element of such an array is [null, items]: JSON null or a row,   *)
(*     a dense sequence of buttons.                                        *)
(***************************************************************************)
EXTENDS Integers, Sequences, FiniteSets, TLC

VARIABLES
    variant,    \* which of the two programs runs
    botData,    \* Page Registry
    filesData,  \* File Registry
    stats,      \* Statistics
    now,        \* the wall clock, in half days
    calls,      \* callback handlers suspended at an await
    uploads,    \* upload handlers suspended at an await
    last,       \* the step taken last: an admin request with its HTTP response, or
                \* a chat interaction with the transport calls it has made
    saves,      \* number of saveData() calls made by the step taken last
    store,      \* the three document files, in the specifications that follow them
    writers,    \* saveData() calls in flight, each at the file it is writing
    process     \* the process: how far its start has come, with its environment

vars ==
    <<variant, botData, filesData, stats, now, calls, uploads, last, saves, store, writers,
      process>>

-----------------------------------------------------------------------------
(* Bounds of the model *)

\* longest button-row array (its `length`) an add-button request may produce
MaxLen == 2
\* most buttons in one button grid an add-button request may produce
MaxButtons == 2
\* last instant of the wall clock, in half days
MaxTime == 2
\* most messages the statistics count
MaxMessages == 2
\* most callback handlers suspended at the same time
MaxCalls == 1
\* most upload handlers suspended at the same time
MaxUploads == 2
\* most saveData() calls in flight at the same time
MaxWriters == 2

\* half days per calendar day
TicksPerDay == 2

-----------------------------------------------------------------------------
(* JavaScript values *)

Undef == "<undefined>"

\* members every plain object inherits from Object.prototype
ProtoKeys == {"constructor"}

NoButtons == [def |-> FALSE, length |-> 0, at |-> <<>>]
EmptyArray == [def |-> TRUE, length |-> 0, at |-> <<>>]

Row(items) == [null |-> FALSE, items |-> items]
NullElem == [null |-> TRUE, items |-> <<>>]

\* a dense array of rows, from a sequence of rows
ArrayOf(rows) ==
    [def |-> TRUE, length |-> Len(rows),
     at |-> [i \in 0..(Len(rows) - 1) |-> Row(rows[i + 1])]]

\* arr[i] is an array (Array.isArray(arr[i]))
IsRowAt(arr, i) == i \in DOMAIN arr.at /\ ~arr.at[i].null

\* the keys that are elements of the array, in order
Indices(arr) == 0..(arr.length - 1)

\* the value Object.prototype gives for an inherited member: a function
\* object, truthy, with no title, message or buttons property
ProtoPage == [title |-> Undef, message |-> Undef, buttons |-> NoButtons]

HasOwn(obj, k) == \E i \in 1..Len(obj) : obj[i].key = k

IndexOf(obj, k) == CHOOSE i \in 1..Len(obj) : obj[i].key = k

Keys(obj) == {obj[i].key : i \in 1..Len(obj)}

\* obj[k] is truthy: an own entry, or a member inherited from Object.prototype
Truthy(obj, k) == HasOwn(obj, k) \/ k \in ProtoKeys

\* obj[k], for a k with Truthy(obj, k)
Get(obj, k) == IF HasOwn(obj, k) THEN obj[IndexOf(obj, k)].page ELSE ProtoPage

\* obj[k] = v
Put(obj, k, v) ==
    IF HasOwn(obj, k)
    THEN [obj EXCEPT ![IndexOf(obj, k)].page = v]
    ELSE Append(obj, [key |-> k, page |-> v])

\* delete obj[k]
Remove(obj, k) == SelectSeq(obj, LAMBDA e : e.key # k)

-----------------------------------------------------------------------------
(* JSON *)

\* JSON.stringify then JSON.parse of an array of rows: a hole becomes null,
\* properties that are not elements are dropped
JsonArray(arr) ==
    IF ~arr.def THEN NoButtons
    ELSE [def |-> TRUE, length |-> arr.length,
          at |-> [i \in Indices(arr) |->
                    IF i \in DOMAIN arr.at THEN arr.at[i] ELSE NullElem]]

\* JSON.stringify then JSON.parse of a page object: undefined properties are
\* dropped (they stay Undef), strings are kept
JsonPage(page) ==
    [title |-> page.title, message |-> page.message, buttons |-> JsonArray(page.buttons)]

\* JSON.stringify then JSON.parse of the Page Registry (key order is kept)
JsonPages(obj) == [i \in 1..Len(obj) |-> [key |-> obj[i].key, page |-> JsonPage(obj[i].page)]]

-----------------------------------------------------------------------------
(* Admin API: pages *)

\* a handler's outcome: the registry afterwards, the HTTP status, and the
\* number of saveData() calls
Outcome(data, status, save) == [data |-> data, status |-> status, save |-> save]

\* an admin request and the response it got
Reply(op, status) ==
    [op |-> op, status |-> status, kind |-> IF status = 200 THEN "success" ELSE "error"]

\* saveData() exists only in the webhook variant
SaveCalls(v) == IF v = "webhook" THEN 1 ELSE 0

\* POST /api/pages: pageId is Undef when missing, pageData.def is FALSE when missing
PostPage(v, bd, pageId, pageData) ==
    IF v = "webhook"
    THEN IF pageId = Undef \/ ~pageData.def \/ pageData.title = Undef \/ pageData.message = Undef
         THEN Outcome(bd, 400, 0)
         ELSE IF Truthy(bd, pageId)
         THEN Outcome(bd, 400, 0)
         ELSE Outcome(Put(bd, pageId,
                          [title |-> pageData.title, message |-> pageData.message,
                           buttons |-> IF pageData.buttons.def THEN pageData.buttons
                                       ELSE EmptyArray]),
                      200, 1)
    ELSE IF pageId = Undef \/ ~pageData.def
         THEN Outcome(bd, 400, 0)
         ELSE IF Truthy(bd, pageId)
         THEN Outcome(bd, 400, 0)
         ELSE Outcome(Put(bd, pageId,
                          [title |-> pageData.title, message |-> pageData.message,
                           buttons |-> pageData.buttons]),
                      200, 0)

\* a merge that keeps nothing of the page
Merge_BodyOnly(page, body) ==
    [title |-> body.title, message |-> body.message, buttons |-> body.buttons]

\* { ...page, ...body }: a property the body has replaces the page's
Merge(page, body) ==
    [title |-> IF body.title # Undef THEN body.title ELSE page.title,
     message |-> IF body.message # Undef THEN body.message ELSE page.message,
     buttons |-> IF body.buttons.def THEN body.buttons ELSE page.buttons]

\* PUT /api/pages/:pageId
PutPage(v, bd, pageId, body) ==
    IF ~Truthy(bd, pageId)
    THEN Outcome(bd, 404, 0)
    ELSE Outcome(Put(bd, pageId, Merge(Get(bd, pageId), body)), 200, SaveCalls(v))

\* DELETE /api/pages/:pageId
DeletePage(v, bd, pageId) ==
    IF ~Truthy(bd, pageId)
    THEN Outcome(bd, 404, 0)
    ELSE Outcome(Remove(bd, pageId), 200, SaveCalls(v))

\* GET /api/pages/:pageId: the response
GetPage(bd, pageId) ==
    IF ~Truthy(bd, pageId)
    THEN Reply("getPage", 404)
    ELSE IF HasOwn(bd, pageId)
    THEN [op |-> "getPage", status |-> 200, kind |-> "page",
          page |-> JsonPage(Get(bd, pageId))]
    ELSE [op |-> "getPage", status |-> 200, kind |-> "empty"]

-----------------------------------------------------------------------------
(* Admin API: buttons *)

\* arr[t] = [] when arr[t] is falsy, then arr[t].push(b)
PushAt(arr, t, b) ==
    LET items == IF IsRowAt(arr, t) THEN arr.at[t].items ELSE <<>>
        keys  == DOMAIN arr.at \cup {t}
    IN  [def |-> TRUE,
         length |-> IF t >= arr.length THEN t + 1 ELSE arr.length,
         at |-> [i \in keys |-> IF i = t THEN Row(Append(items, b)) ELSE arr.at[i]]]

\* an optional index of a request body: has = FALSE when the property is
\* missing; a number n (name = ""), or a string that is no number (name)
NoIndex == [has |-> FALSE, name |-> "", n |-> 0]
Index(n) == [has |-> TRUE, name |-> "", n |-> n]
Named(name) == [has |-> TRUE, name |-> name, n |-> 0]

\* members every array inherits from Array.prototype
ArrayProtoKeys == {"map"}

\* row[buttonIndex] is truthy: a button of the row, or an inherited member
ButtonTruthy(items, buttonIndex) ==
    IF buttonIndex.name = "" THEN buttonIndex.n \in 0..(Len(items) - 1)
    ELSE buttonIndex.name \in ArrayProtoKeys

\* the start splice() computes from its first argument: a string that is no
\* number counts as 0
SpliceStart(index) == IF index.name = "" THEN index.n ELSE 0

\* the row an add-button request targets: rowIndex when given, else a new last row
TargetRow(arr, rowIndex) == IF rowIndex.has THEN rowIndex.n ELSE arr.length

\* POST /api/pages/:pageId/buttons: buttonData.def is FALSE when missing
PostButton(v, bd, pageId, buttonData, rowIndex) ==
    IF ~Truthy(bd, pageId)
    THEN Outcome(bd, 404, 0)
    ELSE IF v = "webhook" /\ (~buttonData.def \/ buttonData.text = Undef)
    THEN Outcome(bd, 400, 0)
    ELSE IF ~HasOwn(bd, pageId)
    THEN \* the button lands on the inherited member, the registry has no such key
         Outcome(bd, 200, SaveCalls(v))
    ELSE LET page == Get(bd, pageId)
             arr  == IF page.buttons.def THEN page.buttons ELSE EmptyArray
             t    == TargetRow(arr, rowIndex)
         IN  Outcome(Put(bd, pageId, [page EXCEPT !.buttons = PushAt(arr, t, buttonData)]),
                     200, SaveCalls(v))

\* seq.splice(i, 1) on a dense row, 0-based i
RemoveAt(seq, i) == [j \in 1..(Len(seq) - 1) |-> IF j <= i THEN seq[j] ELSE seq[j + 1]]

\* arr.splice(start, 1): a negative start counts from the end; holes shift
\* with the elements, properties that are not elements stay
SpliceRow(arr, start) ==
    LET s == IF start < 0
             THEN (IF arr.length + start < 0 THEN 0 ELSE arr.length + start)
             ELSE start
    IN  IF s >= arr.length THEN arr
        ELSE LET moved(i) == IF i \in Indices(arr) /\ i > s THEN i - 1 ELSE i
                 kept == {i \in DOMAIN arr.at : i # s}
             IN  [def |-> TRUE, length |-> arr.length - 1,
                  at |-> [k \in {moved(i) : i \in kept} |->
                            arr.at[CHOOSE i \in kept : moved(i) = k]]]

\* a deletion that leaves the emptied row in the grid
SpliceButton_KeepsEmptyRow(arr, r, c) ==
    [arr EXCEPT !.at[r] = Row(RemoveAt(arr.at[r].items, c))]

\* the button grid after deleting button c of row r (both exist)
SpliceButton(arr, r, c) ==
    LET items == RemoveAt(arr.at[r].items, c)
        cut   == [arr EXCEPT !.at[r] = Row(items)]
    IN  IF Len(items) = 0 THEN SpliceRow(cut, r) ELSE cut

\* DELETE /api/pages/:pageId/buttons (a route of the webhook variant only)
DeleteButton(v, bd, pageId, rowIndex, buttonIndex) ==
    IF v # "webhook" THEN Outcome(bd, 404, 0)
    ELSE IF ~Truthy(bd, pageId)
    THEN Outcome(bd, 404, 0)
    ELSE LET page == Get(bd, pageId)
             arr  == page.buttons
         IN  IF ~arr.def \/ ~rowIndex.has \/ rowIndex.name # "" \/ ~IsRowAt(arr, rowIndex.n)
             THEN Outcome(bd, 404, 0)
             ELSE IF buttonIndex.has /\ ButtonTruthy(arr.at[rowIndex.n].items, buttonIndex)
             THEN Outcome(Put(bd, pageId,
                              [page EXCEPT !.buttons =
                                  SpliceButton(arr, rowIndex.n, SpliceStart(buttonIndex))]),
                          200, 1)
             ELSE Outcome(bd, 404, 0)

-----------------------------------------------------------------------------
(* Inputs the environment may send *)

\* a button as stored: def = FALSE is an undefined buttonData
Button(text, cb, url) == [def |-> TRUE, text |-> text, callback_data |-> cb, url |-> url]
NoButton == [def |-> FALSE, text |-> Undef, callback_data |-> Undef, url |-> Undef]
BGo == Button("Go", "page_main_page", Undef)
BSite == Button("Site", Undef, "https://example.org")
ButtonInputs == {BGo, BSite, NoButton}

\* page ids of admin requests; "constructor" is a member of Object.prototype
PageIds == {"main_page", "promo", "constructor"}

NoPageData == [def |-> FALSE, title |-> Undef, message |-> Undef, buttons |-> NoButtons]
PageData(title, message, buttons) ==
    [def |-> TRUE, title |-> title, message |-> message, buttons |-> buttons]
PageDataInputs ==
    {NoPageData} \cup
    [def : {TRUE}, title : {"Promo", Undef}, message : {"Hi", Undef},
     buttons : {NoButtons, EmptyArray, ArrayOf(<< <<BGo>> >>)}]

\* bodies of PUT /api/pages/:pageId
BodyInputs ==
    [title : {"Sale", Undef}, message : {Undef}, buttons : {NoButtons, EmptyArray}]

\* rowIndex of a request; add-button requests carry numbers only
RowIndexInputs == {NoIndex} \cup {Index(n) : n \in (-1)..MaxLen}
\* buttonIndex of a delete-button request
ButtonIndexInputs == {NoIndex, Named("map")} \cup {Index(n) : n \in (-1)..MaxButtons}

-----------------------------------------------------------------------------
(* Initial state *)

\* the pages index.js starts with
DefaultPages ==
    << [key |-> "main_page",
        page |-> [title |-> "Home", message |-> "Welcome",
                  buttons |-> ArrayOf(<< <<Button("Photos", "photos_page", Undef)>>,
                                         <<Button("Documents", "docs_page", Undef)>>,
                                         <<Button("Videos", "videos_page", Undef)>>,
                                         <<Button("Info", "info_page", Undef)>> >>)]],
       [key |-> "photos_page",
        page |-> [title |-> "Photos", message |-> "Choose a photo",
                  buttons |-> ArrayOf(<< <<Button("Photo 1", "photo_1", Undef)>>,
                                         <<Button("Photo 2", "photo_2", Undef)>>,
                                         <<Button("Back", "main_page", Undef)>> >>)]],
       [key |-> "docs_page",
        page |-> [title |-> "Documents", message |-> "Choose a document",
                  buttons |-> ArrayOf(<< <<Button("Catalog", "doc_catalog", Undef)>>,
                                         <<Button("Prices", "doc_prices", Undef)>>,
                                         <<Button("Back", "main_page", Undef)>> >>)]],
       [key |-> "videos_page",
        page |-> [title |-> "Videos", message |-> "Choose a video",
                  buttons |-> ArrayOf(<< <<Button("Intro", "video_1", Undef)>>,
                                         <<Button("Product", "video_2", Undef)>>,
                                         <<Button("Back", "main_page", Undef)>> >>)]],
       [key |-> "info_page",
        page |-> [title |-> "Info", message |-> "About the bot",
                  buttons |-> ArrayOf(<< <<Button("Contact", "contact", Undef)>>,
                                         <<Button("Back", "main_page", Undef)>> >>)]] >>

\* new Date().toDateString(): the calendar day of an instant
DateString(t) == t \div TicksPerDay

\* the statistics of a process started at instant t (startDate: new Date())
NewStats(t) ==
    [users |-> {}, messages |-> 0, todayUsers |-> {}, todayMessages |-> 0,
     startDate |-> t, dailyReset |-> DateString(t)]

\* a startDate property of a JSON document: has = FALSE when it is missing
NoDate == [has |-> FALSE, val |-> 0]
DateOf(t) == [has |-> TRUE, val |-> t]

-----------------------------------------------------------------------------
(* Process start *)

\* token: BOT_TOKEN is set; url: RENDER_EXTERNAL_URL is set; loaded:
\* loadData() has returned. state is "starting" (the module is not
\* evaluated yet), "loading" (loadData() is awaited), "serving"
\* (app.listen was called) or "exited" (process.exit(1))
Process(state, token, url, loaded) ==
    [state |-> state, token |-> token, url |-> url, loaded |-> loaded]

\* a process that started with its whole environment
Serving == Process("serving", TRUE, TRUE, TRUE)

\* the module is evaluated to its end: the configuration checks of the
\* webhook variant, then loadData() is called; the polling variant has
\* neither checks nor a load and listens at once
Evaluate(v, pr) ==
    IF v = "webhook"
    THEN IF ~pr.token \/ ~pr.url THEN [pr EXCEPT !.state = "exited"]
         ELSE [pr EXCEPT !.state = "loading"]
    ELSE [pr EXCEPT !.state = "serving"]

\* a handler of the HTTP server or a continuation of a handler runs
Running == process.state = "serving" /\ process' = process

\* an update of a chat reaches its handler: Telegram delivers none to a bot
\* without a token
Reached == process.token /\ Running

-----------------------------------------------------------------------------
(* Persistent store: saveData *)

\* a document file on disk: state is "missing" (ENOENT), "unreadable" (any
\* other read or parse failure) or "ok" with the parsed content val
NoFile == [state |-> "missing", val |-> <<>>]
BadFile == [state |-> "unreadable", val |-> <<>>]
OkFile(val) == [state |-> "ok", val |-> val]

\* a property of the parsed stats document that `new Set(x || [])` reads:
\* ok = FALSE is a truthy value that is not iterable (a number)
ListOf(set) == [ok |-> TRUE, val |-> set]
NotAList == [ok |-> FALSE, val |-> {}]

\* the parsed stats document (dailyReset is a day, as DateString gives it)
StatsDoc(users, messages, todayUsers, todayMessages, startDate, dailyReset) ==
    [users |-> users, messages |-> messages, todayUsers |-> todayUsers,
     todayMessages |-> todayMessages, startDate |-> startDate, dailyReset |-> dailyReset]

\* the files of a deployment that has saved nothing yet; followed = FALSE in
\* the specifications that leave the files out
NoDisk == [followed |-> FALSE, pages |-> NoFile, files |-> NoFile, stats |-> NoFile]
EmptyDisk == [followed |-> TRUE, pages |-> NoFile, files |-> NoFile, stats |-> NoFile]

\* statsToSave: the Sets as arrays, the start date as an ISO string
StatsToSave(st) ==
    StatsDoc(ListOf(st.users), st.messages, ListOf(st.todayUsers), st.todayMessages,
             DateOf(st.startDate), st.dailyReset)

\* saveData() up to its first await: statsToSave is built and the write of
\* the pages file has begun with the pages as they are now
Writer(bd, st) == [doc |-> "pages", data |-> JsonPages(bd), statsToSave |-> StatsToSave(st)]

\* the saveData() calls of a step, one for each statistics value in snaps,
\* in the order of the calls; none of them is awaited
Saving(snaps) ==
    IF store.followed
    THEN /\ Len(writers) + Len(snaps) <= MaxWriters
         /\ writers' = writers \o [i \in 1..Len(snaps) |-> Writer(botData', snaps[i])]
         /\ store' = store
    ELSE UNCHANGED <<store, writers>>

\* a handler whose saveData() call, if it makes one, is its last statement
\* that changes state
Persist == Saving(IF saves' >= 1 THEN <<stats'>> ELSE <<>>)

\* a handler that rolls the day, counts the interaction and saves: the call
\* inside resetDailyStats() comes before the interaction is counted
PersistCounted(reset) ==
    Saving((IF reset.save >= 1 THEN <<reset.stats>> ELSE <<>>)
           \o (IF saves' > reset.save THEN <<stats'>> ELSE <<>>))

\* the write a saveData() call awaits ends: the file holds the data, and
\* the call goes on to write the next file or returns
WriteDone ==
    \E i \in 1..Len(writers) :
        LET w == writers[i]
        IN  /\ store' = IF w.doc = "pages" THEN [store EXCEPT !.pages = OkFile(w.data)]
                       ELSE IF w.doc = "files" THEN [store EXCEPT !.files = OkFile(w.data)]
                       ELSE [store EXCEPT !.stats = OkFile(w.data)]
            /\ writers' = IF w.doc = "pages"
                           THEN [writers EXCEPT ![i] = [w EXCEPT !.doc = "files", !.data = filesData]]
                           ELSE IF w.doc = "files"
                           THEN [writers EXCEPT ![i] = [w EXCEPT !.doc = "stats", !.data = w.statsToSave]]
                           ELSE [j \in 1..(Len(writers) - 1) |-> IF j < i THEN writers[j] ELSE writers[j + 1]]
            /\ saves' = 0
            /\ UNCHANGED <<variant, botData, filesData, stats, now, calls, uploads, last>>
            /\ Running

NoStep == [op |-> "none"]

Init ==
    /\ variant \in {"webhook", "polling"}
    /\ botData = IF variant = "webhook" THEN <<>> ELSE DefaultPages
    /\ filesData = <<>>
    /\ now = 0
    /\ stats = NewStats(0)
    /\ calls = <<>>
    /\ uploads = <<>>
    /\ last = NoStep
    /\ saves = 0
    /\ store = NoDisk
    /\ writers = <<>>
    /\ process = Serving

-----------------------------------------------------------------------------
(* Admin requests on pages and buttons *)

chatVars == <<stats, now, calls, uploads>>


\* a handler that ends in one step with outcome `out`
Handled(op, out) ==
    /\ botData' = out.data
    /\ saves' = out.save
    /\ last' = Reply(op, out.status)
    /\ UNCHANGED <<variant, filesData, chatVars>>
    /\ Persist
    /\ Running

ReqGetPage(ids) ==
    \E id \in ids :
        /\ last' = GetPage(botData, id)
        /\ saves' = 0
        /\ UNCHANGED <<variant, botData, filesData, chatVars>>
        /\ Persist
        /\ Running

ReqPostPage(ids, datas) ==
    \E id \in ids, pd \in datas :
        Handled("postPage", PostPage(variant, botData, id, pd))

ReqPutPage(ids, bodies) ==
    \E id \in ids, body \in bodies :
        Handled("putPage", PutPage(variant, botData, id, body))

ReqDeletePage(ids) ==
    \E id \in ids :
        Handled("deletePage", DeletePage(variant, botData, id))

\* number of buttons in the rows of an array (non-index properties included)
RECURSIVE CountIn(_, _)
CountIn(arr, keys) ==
    IF keys = {} THEN 0
    ELSE LET k == CHOOSE k \in keys : TRUE
         IN  Len(arr.at[k].items) + CountIn(arr, keys \ {k})

ButtonCount(arr) == CountIn(arr, DOMAIN arr.at)

\* the grid an add-button request leaves stays within the model's bounds
WithinBounds(bd, id, rowIndex) ==
    HasOwn(bd, id) =>
        /\ ButtonCount(Get(bd, id).buttons) < MaxButtons
        /\ TargetRow(Get(bd, id).buttons, rowIndex) < MaxLen

ReqPostButton(ids, buttons) ==
    \E id \in ids, b \in buttons, r \in RowIndexInputs :
        /\ WithinBounds(botData, id, r)
        /\ Handled("postButton", PostButton(variant, botData, id, b, r))

ReqDeleteButton(ids) ==
    \E id \in ids, r \in RowIndexInputs \cup {Named("map")}, c \in ButtonIndexInputs :
        Handled("deleteButton", DeleteButton(variant, botData, id, r, c))

-----------------------------------------------------------------------------
(* Statistics *)

\* resetDailyStats() that forgets to zero the daily message counter
ResetDailyStats_KeepsCount(v, st, t) ==
    IF st.dailyReset # DateString(t)
    THEN [stats |-> [st EXCEPT !.todayUsers = {}, !.dailyReset = DateString(t)],
          save |-> IF v = "webhook" THEN 1 ELSE 0]
    ELSE [stats |-> st, save |-> 0]

\* resetDailyStats(): the statistics afterwards and the saveData() calls made
ResetDailyStats(v, st, t) ==
    IF st.dailyReset # DateString(t)
    THEN [stats |-> [st EXCEPT !.todayUsers = {}, !.todayMessages = 0,
                               !.dailyReset = DateString(t)],
          save |-> SaveCalls(v)]
    ELSE [stats |-> st, save |-> 0]

\* a /start handler that records the user and counts no message
CountStart_UserOnly(st, chatId) ==
    [st EXCEPT !.users = @ \cup {chatId}, !.todayUsers = @ \cup {chatId}]

\* the statistics lines of the /start handler
CountStart(st, chatId) ==
    [st EXCEPT !.users = @ \cup {chatId}, !.todayUsers = @ \cup {chatId},
               !.messages = @ + 1, !.todayMessages = @ + 1]

\* the statistics lines of the callback_query handler
CountCallback(st) == [st EXCEPT !.messages = @ + 1, !.todayMessages = @ + 1]

-----------------------------------------------------------------------------
(* Navigation engine *)

\* a call of the transport: mid is Undef for a call that creates a message;
\* caught tells whether the code handles a rejection of the call (a .catch
\* on the promise, or an await inside try)
Send(chatId, body) ==
    [op |-> "sendMessage", chat |-> chatId, mid |-> Undef, body |-> body, caught |-> FALSE]
Edit(chatId, mid, body, caught) ==
    [op |-> "editMessageText", chat |-> chatId, mid |-> mid, body |-> body, caught |-> caught]
SendFile(op, chatId, fileId, caught) ==
    [op |-> op, chat |-> chatId, mid |-> Undef, body |-> [kind |-> "file", file_id |-> fileId],
     caught |-> caught]
Ack == [op |-> "answerCallbackQuery"]

Notice(text) == [kind |-> "notice", text |-> text]
Literal(text) == [kind |-> "text", text |-> text]

\* what a run of handler code did: the transport calls it made, in order, and
\* whether it ended by throwing
Ran(ops) == [ops |-> ops, threw |-> FALSE]
Threw(ops) == [ops |-> ops, threw |-> TRUE]

\* String(x)
JsString(x) == IF x = Undef THEN "undefined" ELSE x

\* page.buttons.map(row => row.map(button => ...)) of the webhook variant:
\* holes stay holes, non-index properties are not copied
MapButton(b) ==
    IF b.url # Undef
    THEN [text |-> b.text, url |-> b.url]
    ELSE [text |-> b.text, callback_data |-> JsString(b.callback_data)]

MapRows(arr) ==
    [def |-> TRUE, length |-> arr.length,
     at |-> [i \in DOMAIN arr.at \cap Indices(arr) |->
               Row([j \in 1..Len(arr.at[i].items) |-> MapButton(arr.at[i].items[j])])]]

\* row.map throws on a null row, button.url throws on an undefined button
MapThrows(arr) ==
    \E i \in DOMAIN arr.at \cap Indices(arr) :
        \/ arr.at[i].null
        \/ \E j \in 1..Len(arr.at[i].items) : ~arr.at[i].items[j].def

PageBody(title, message, keyboard) ==
    [kind |-> "page", title |-> title, message |-> message, keyboard |-> keyboard]

\* a showPage that never edits: it sends a new message also when messageId is given
ShowPage_AlwaysSends(v, bd, chatId, pageKey, messageId) ==
    IF ~Truthy(bd, pageKey)
    THEN Ran(<<Send(chatId, Notice("pageNotFound"))>>)
    ELSE LET page == Get(bd, pageKey)
         IN  Ran(<<Send(chatId, PageBody(page.title, page.message, page.buttons))>>)

\* showPage(chatId, pageKey, messageId): messageId is Undef when not given
ShowPage(v, bd, chatId, pageKey, messageId) ==
    IF ~Truthy(bd, pageKey)
    THEN IF v = "webhook" THEN Ran(<<Send(chatId, Notice("pageNotFound"))>>)
         ELSE Ran(<<>>)
    ELSE LET page == Get(bd, pageKey)
             kb   == IF v = "webhook"
                     THEN (IF page.buttons.def THEN MapRows(page.buttons) ELSE EmptyArray)
                     ELSE page.buttons
             body == PageBody(page.title, page.message, kb)
         IN  IF v = "webhook" /\ page.buttons.def /\ MapThrows(page.buttons)
             THEN Threw(<<>>)
             ELSE IF messageId # Undef
             THEN Ran(<<Edit(chatId, messageId, body, TRUE)>>)
             ELSE Ran(<<Send(chatId, body)>>)

\* the part of the /start handler that follows the statistics
StartReply(v, bd, chatId) ==
    IF v = "webhook"
    THEN IF Len(bd) = 0
         THEN Ran(<<Send(chatId, Notice("noPages"))>>)
         ELSE ShowPage(v, bd, chatId,
                       IF Truthy(bd, "main_page") THEN "main_page" ELSE bd[1].key,
                       Undef)
    ELSE ShowPage(v, bd, chatId, "main_page", Undef)

StartsWith(str, prefix) ==
    Len(str) >= Len(prefix) /\ SubSeq(str, 1, Len(prefix)) = prefix

\* str.substring(5)
Substring5(str) == SubSeq(str, 6, Len(str))

\* obj[k] is truthy, for the File Registry
FileTruthy(fd, k) == k \in DOMAIN fd \/ k \in ProtoKeys

\* the value Object.prototype gives for an inherited member, read as a file record
ProtoFile == [name |-> Undef, type |-> Undef, file_id |-> Undef]

GetFile(fd, k) == IF k \in DOMAIN fd THEN fd[k] ELSE ProtoFile

\* the transport call that delivers a file of a MIME type
SendOpFor(type) ==
    IF StartsWith(type, "image/") THEN "sendPhoto"
    ELSE IF StartsWith(type, "video/") THEN "sendVideo"
    ELSE IF StartsWith(type, "audio/") THEN "sendAudio"
    ELSE "sendDocument"

\* webhook variant: the callback_query handler from the acknowledgement to
\* its end or to its next await. `await` names the call it waits for.
Dispatch(bd, fd, chatId, messageId, data) ==
    IF StartsWith(data, "file_")
    THEN LET fileId == Substring5(data)
             file   == GetFile(fd, fileId)
         IN  IF FileTruthy(fd, fileId) /\ file.file_id # Undef
             THEN IF file.type = Undef
                  THEN [run |-> Ran(<<Send(chatId, Notice("fileError"))>>), await |-> FALSE]
                  ELSE [run |-> Ran(<<SendFile(SendOpFor(file.type), chatId, file.file_id, TRUE)>>),
                        await |-> TRUE]
             ELSE [run |-> Ran(<<Send(chatId, Notice("fileUnavailable"))>>), await |-> FALSE]
    ELSE IF StartsWith(data, "page_")
    THEN LET pageKey == Substring5(data)
         IN  IF Truthy(bd, pageKey)
             THEN [run |-> ShowPage("webhook", bd, chatId, pageKey, messageId), await |-> FALSE]
             ELSE [run |-> Ran(<<Edit(chatId, messageId, Notice("pageUnavailable"), TRUE)>>),
                   await |-> FALSE]
    ELSE IF StartsWith(data, "text_")
    THEN [run |-> Ran(<<Send(chatId, Literal(Substring5(data)))>>), await |-> FALSE]
    ELSE [run |-> Ran(<<Edit(chatId, messageId, Notice("unknownButton"), TRUE)>>), await |-> FALSE]

\* polling variant: the callback_query handler after the statistics; data is
\* Undef when the query carries none
DispatchPolling(bd, fd, chatId, messageId, data) ==
    IF FileTruthy(fd, data)
    THEN LET file == GetFile(fd, data)
         IN  IF file.type = Undef THEN Threw(<<Ack>>)
             ELSE Ran(<<Ack, SendFile(SendOpFor(file.type), chatId, file.file_id, FALSE)>>)
    ELSE IF Truthy(bd, data)
    THEN LET shown == ShowPage("polling", bd, chatId, data, messageId)
         IN  [shown EXCEPT !.ops = <<Ack>> \o @]
    ELSE IF data = "contact"
    THEN Ran(<<Ack, Edit(chatId, messageId, Notice("contact"), FALSE)>>)
    ELSE Ran(<<Ack>>)

-----------------------------------------------------------------------------
(* Chat interactions *)

Chats == {"c1", "c2"}
\* the message a pressed button belongs to
MessageIds == {"m7"}
\* callback payloads
DataInputs ==
    {"file_1001", "file_999", "page_main_page", "page_gone", "text_hello",
     "main_page", "contact", "1001", "constructor", "zzz"}

\* time passes
Tick ==
    /\ now < MaxTime
    /\ now' = now + 1
    /\ saves' = 0
    /\ UNCHANGED <<variant, botData, filesData, stats, calls, uploads, last>>
    /\ Persist
    /\ UNCHANGED process

\* bot.onText(/\/start/)
Start ==
    \E c \in Chats :
        LET reset == ResetDailyStats(variant, stats, now)
            run   == StartReply(variant, botData, c)
        IN  /\ stats.messages < MaxMessages
            /\ stats' = CountStart(reset.stats, c)
            /\ saves' = reset.save + SaveCalls(variant)
            /\ last' = [op |-> "start", chat |-> c, mid |-> Undef, data |-> Undef,
                            ops |-> run.ops, threw |-> run.threw, done |-> TRUE,
                            ack |-> "none", delivery |-> "none", rejected |-> "none"]
            /\ UNCHANGED <<variant, botData, filesData, now, calls, uploads>>
            /\ PersistCounted(reset)
            /\ Reached

\* bot.on('callback_query'), polling variant: the whole handler
CallbackPolling(datas) ==
    \E c \in Chats, m \in MessageIds, d \in datas :
        LET reset == ResetDailyStats(variant, stats, now)
            run   == DispatchPolling(botData, filesData, c, m, d)
        IN  /\ variant = "polling"
            /\ stats.messages < MaxMessages
            /\ stats' = CountCallback(reset.stats)
            /\ saves' = 0
            /\ last' = [op |-> "callback", chat |-> c, mid |-> m, data |-> d,
                            ops |-> run.ops, threw |-> run.threw, done |-> TRUE,
                            ack |-> "none", delivery |-> "none", rejected |-> "none"]
            /\ UNCHANGED <<variant, botData, filesData, now, calls, uploads>>
            /\ Persist
            /\ Reached

\* bot.on('callback_query'), webhook variant: up to `await bot.answerCallbackQuery`
CallbackBegin(datas) ==
    \E c \in Chats, m \in MessageIds, d \in datas :
        LET reset == ResetDailyStats(variant, stats, now)
            call  == [op |-> "callback", chat |-> c, mid |-> m, data |-> JsString(d),
                      ops |-> <<Ack>>, threw |-> FALSE, done |-> FALSE,
                      ack |-> "pending", delivery |-> "none", rejected |-> "none"]
        IN  /\ variant = "webhook"
            /\ stats.messages < MaxMessages
            /\ Len(calls) < MaxCalls
            /\ stats' = CountCallback(reset.stats)
            /\ saves' = reset.save + 1
            /\ calls' = Append(calls, call)
            /\ last' = call
            /\ UNCHANGED <<variant, botData, filesData, now, uploads>>
            /\ PersistCounted(reset)
            /\ Reached

Without(seq, i) == [j \in 1..(Len(seq) - 1) |-> IF j < i THEN seq[j] ELSE seq[j + 1]]

\* the acknowledgement is rejected: the await throws and the handler ends
CallbackAckFailed ==
    \E i \in 1..Len(calls) :
        /\ calls[i].ack = "pending"
        /\ calls' = Without(calls, i)
        /\ last' = [calls[i] EXCEPT !.ack = "failed", !.threw = TRUE, !.done = TRUE]
        /\ saves' = 0
        /\ UNCHANGED <<variant, botData, filesData, stats, now, uploads>>
        /\ Persist
        /\ Running

\* the acknowledgement is confirmed: the handler runs on to its end or to
\* the await of a file delivery
CallbackAcked ==
    \E i \in 1..Len(calls) :
        LET call == calls[i]
            d    == Dispatch(botData, filesData, call.chat, call.mid, call.data)
            next == [call EXCEPT !.ack = "ok", !.ops = @ \o d.run.ops,
                                 !.threw = d.run.threw, !.done = ~d.await,
                                 !.delivery = IF d.await THEN "pending" ELSE "none"]
        IN  /\ call.ack = "pending"
            /\ calls' = IF d.await THEN [calls EXCEPT ![i] = next] ELSE Without(calls, i)
            /\ last' = next
            /\ saves' = 0
            /\ UNCHANGED <<variant, botData, filesData, stats, now, uploads>>
            /\ Persist
            /\ Running

\* the catch block around the file delivery
DeliveryFailed(call) ==
    [call EXCEPT !.ops = @ \o <<Send(call.chat, Notice("fileError"))>>,
                 !.delivery = "failed", !.done = TRUE]

\* the awaited file delivery ends, confirmed or rejected
CallbackDelivered ==
    \E i \in 1..Len(calls), ok \in BOOLEAN :
        /\ calls[i].delivery = "pending"
        /\ calls' = Without(calls, i)
        /\ last' = IF ok THEN [calls[i] EXCEPT !.delivery = "ok", !.done = TRUE]
                       ELSE DeliveryFailed(calls[i])
        /\ saves' = 0
        /\ UNCHANGED <<variant, botData, filesData, stats, now, uploads>>
        /\ Persist
        /\ Running

\* the transport rejects an edit the handler issued (the message is too old,
\* or its text would not change): a .catch on the call logs the error, a
\* call without one leaves an unhandled rejection
EditRejected ==
    \E i \in 1..(IF last.op \in {"start", "callback"} THEN Len(last.ops) ELSE 0) :
        /\ last.done
        /\ last.rejected = "none"
        /\ last.ops[i].op = "editMessageText"
        /\ last' = [last EXCEPT !.rejected = IF last.ops[i].caught THEN "logged"
                                             ELSE "unhandled"]
        /\ saves' = 0
        /\ UNCHANGED <<variant, botData, filesData, stats, now, calls, uploads>>
        /\ Persist
        /\ Running

-----------------------------------------------------------------------------
(* Admin API: files *)

FileIds == {"1001", "1002"}
MimeTypes == {"image/png", "application/pdf"}

FileRecord(name, type, handle) == [name |-> name, type |-> type, file_id |-> handle]

\* the uploaded file of a request: has = FALSE when the request carries none
NoUpload == [has |-> FALSE, name |-> Undef, type |-> Undef]
UploadInputs == {NoUpload} \cup [has : {TRUE}, name : {"a.bin"}, type : MimeTypes]

\* fd[k] = v
PutFile(fd, k, v) == [x \in DOMAIN fd \cup {k} |-> IF x = k THEN v ELSE fd[x]]

\* delete fd[k]
RemoveFile(fd, k) == [x \in DOMAIN fd \ {k} |-> fd[x]]

\* POST /api/upload up to the await of the transport: the status it answers
\* with at once, or 0 when it goes on to send the file. adminChat tells
\* whether ADMIN_CHAT_ID is configured.
UploadCheck(v, file, adminChat) ==
    IF ~file.has THEN 400
    ELSE IF v = "webhook" /\ ~adminChat THEN 400
    ELSE 0

\* POST /api/upload after the await: result is "rejected" (the transport
\* call failed), "noMedia" (the sent message carries no media) or "ok";
\* id is Date.now().toString()
UploadFinish(v, fd, file, result, handle, id) ==
    IF result = "rejected" THEN Outcome(fd, 500, 0)
    ELSE IF result = "noMedia" /\ v = "webhook" THEN Outcome(fd, 500, 0)
    ELSE Outcome(PutFile(fd, id,
                         FileRecord(file.name, file.type,
                                    IF result = "ok" THEN handle ELSE Undef)),
                 200, SaveCalls(v))

\* DELETE /api/files/:fileId
DeleteFile(v, fd, fileId) ==
    IF ~FileTruthy(fd, fileId) THEN Outcome(fd, 404, 0)
    ELSE Outcome(RemoveFile(fd, fileId), 200, SaveCalls(v))

\* GET /api/files/:fileId/preview: the response
PreviewFile(fd, fileId) ==
    IF ~FileTruthy(fd, fileId) THEN Reply("previewFile", 404)
    ELSE [op |-> "previewFile", status |-> 200, kind |-> "file", file |-> GetFile(fd, fileId)]

ReqUploadBegin(files) ==
    \E f \in files, adminChat \in BOOLEAN :
        LET status == UploadCheck(variant, f, adminChat)
        IN  /\ status = 0 => Len(uploads) < MaxUploads
            /\ uploads' = IF status = 0 THEN Append(uploads, f) ELSE uploads
            /\ last' = IF status = 0 THEN [op |-> "upload", status |-> 0, kind |-> "pending"]
                        ELSE Reply("upload", status)
            /\ saves' = 0
            /\ UNCHANGED <<variant, botData, filesData, stats, now, calls>>
            /\ Persist
            /\ Running

ReqUploadEnd(ids) ==
    \E i \in 1..Len(uploads), result \in {"rejected", "noMedia", "ok"}, id \in ids :
        LET out == UploadFinish(variant, filesData, uploads[i], result, "tg-handle", id)
        IN  /\ filesData' = out.data
            /\ uploads' = Without(uploads, i)
            /\ last' = Reply("upload", out.status)
            /\ saves' = out.save
            /\ UNCHANGED <<variant, botData, stats, now, calls>>
            /\ Persist
            /\ Running

ReqDeleteFile(ids) ==
    \E id \in ids :
        LET out == DeleteFile(variant, filesData, id)
        IN  /\ filesData' = out.data
            /\ last' = Reply("deleteFile", out.status)
            /\ saves' = out.save
            /\ UNCHANGED <<variant, botData, chatVars>>
            /\ Persist
            /\ Running

ReqPreviewFile(ids) ==
    \E id \in ids :
        /\ last' = PreviewFile(filesData, id)
        /\ saves' = 0
        /\ UNCHANGED <<variant, botData, filesData, chatVars>>
        /\ Persist
        /\ Running

-----------------------------------------------------------------------------
(* Admin API: export and import *)

\* a backup document as JSON.parse returns it; valid = FALSE is a body that
\* is not JSON. A key of the document is present when its `has` is TRUE.
\* stats.totalUsers is an array of chat ids (isList) or a number (count).
Doc(pages, files, st) == [valid |-> TRUE, botData |-> pages, filesData |-> files, stats |-> st]
Absent == [has |-> FALSE, val |-> <<>>]
Present(val) == [has |-> TRUE, val |-> val]
NoDocStats ==
    [has |-> FALSE, isList |-> TRUE, totalUsers |-> {}, count |-> 0, totalMessages |-> 0,
     startDate |-> NoDate]
NotJson == [valid |-> FALSE, botData |-> Absent, filesData |-> Absent, stats |-> NoDocStats]

\* GET /api/export: the document the client receives and parses
ExportDoc(v, bd, fd, st) ==
    Doc(Present(JsonPages(bd)), Present(fd),
        [has |-> TRUE, isList |-> v = "webhook",
         totalUsers |-> IF v = "webhook" THEN st.users ELSE {},
         count |-> Cardinality(st.users), totalMessages |-> st.messages,
         startDate |-> DateOf(st.startDate)])

\* the registries and statistics after POST /api/import of `doc` at instant t,
\* with the HTTP status and the saveData() calls
ImportDoc(v, bd, fd, st, doc, t) ==
    LET failed(b, f) == [botData |-> b, filesData |-> f, stats |-> st, status |-> 500, save |-> 0]
        bd2 == IF doc.botData.has THEN doc.botData.val ELSE bd
        fd2 == IF doc.filesData.has THEN doc.filesData.val ELSE fd
    IN  IF ~doc.valid THEN failed(bd, fd)
        ELSE IF v = "polling"
        THEN [botData |-> bd2, filesData |-> fd2, stats |-> st, status |-> 200, save |-> 0]
        ELSE IF doc.stats.has /\ ~doc.stats.isList /\ doc.stats.count # 0
        THEN failed(bd2, fd2)
        ELSE [botData |-> bd2, filesData |-> fd2,
              stats |-> IF doc.stats.has
                        THEN [users |-> IF doc.stats.isList THEN doc.stats.totalUsers ELSE {},
                              messages |-> doc.stats.totalMessages,
                              todayUsers |-> {}, todayMessages |-> 0,
                              startDate |-> IF doc.stats.startDate.has
                                            THEN doc.stats.startDate.val ELSE t,
                              dailyReset |-> DateString(t)]
                        ELSE st,
              status |-> 200, save |-> 1]

ReqExport ==
    LET reset == IF variant = "webhook" THEN ResetDailyStats(variant, stats, now)
                 ELSE [stats |-> stats, save |-> 0]
    IN  /\ stats' = reset.stats
        /\ saves' = reset.save
        /\ last' = [op |-> "export", status |-> 200, kind |-> "backup",
                    doc |-> ExportDoc(variant, botData, filesData, reset.stats)]
        /\ UNCHANGED <<variant, botData, filesData, now, calls, uploads>>
        /\ Persist
        /\ Running

\* the admin sends back the document just exported, or one of `docs`;
\* hasFile = FALSE is a request without a backup file
ReqImport(docs) ==
    \E hasFile \in BOOLEAN,
       doc \in docs \cup (IF last.op = "export" THEN {last.doc} ELSE {}) :
        LET out == ImportDoc(variant, botData, filesData, stats, doc, now)
            op  == IF hasFile /\ last.op = "export" /\ doc = last.doc
                   THEN "importExported" ELSE "import"
        IN  /\ IF hasFile
               THEN /\ botData' = out.botData
                    /\ filesData' = out.filesData
                    /\ stats' = out.stats
                    /\ saves' = out.save
                    /\ last' = Reply(op, out.status)
               ELSE /\ UNCHANGED <<botData, filesData, stats>>
                    /\ saves' = 0
                    /\ last' = Reply(op, 400)
            /\ UNCHANGED <<variant, now, calls, uploads>>
            /\ Persist
            /\ Running

-----------------------------------------------------------------------------
(* Admin API: statistics and clear-all *)

\* the page POST /api/clear-all of the polling variant leaves behind
ClearedMainPage ==
    [key |-> "main_page",
     page |-> [title |-> "Home", message |-> "Welcome", buttons |-> EmptyArray]]

\* POST /api/clear-all at instant t
ClearAll(v, t) ==
    [botData |-> IF v = "webhook" THEN <<>> ELSE <<ClearedMainPage>>,
     filesData |-> <<>>,
     stats |-> NewStats(t),
     save |-> SaveCalls(v)]

ReqClearAll ==
    LET out == ClearAll(variant, now)
    IN  /\ botData' = out.botData
        /\ filesData' = out.filesData
        /\ stats' = out.stats
        /\ saves' = out.save
        /\ last' = Reply("clearAll", 200)
        /\ UNCHANGED <<variant, now, calls, uploads>>
        /\ Persist
        /\ Running

\* a statistics snapshot that reports without the daily roll
Snapshot_NoRoll(v, op, bd, fd, st, t) ==
    [stats |-> st, save |-> 0,
     reply |-> [op |-> op, status |-> 200, kind |-> "success",
                users |-> Cardinality(st.users), messages |-> st.messages,
                pages |-> Len(bd), files |-> Cardinality(DOMAIN fd),
                todayUsers |-> Cardinality(st.todayUsers),
                todayMessages |-> st.todayMessages,
                uptime |-> t - st.startDate]]

\* GET /api/stats and GET /api/detailed-stats at instant t: the statistics
\* afterwards, the saveData() calls, and the figures of the response
Snapshot(v, op, bd, fd, st, t) ==
    LET reset == ResetDailyStats(v, st, t)
    IN  [stats |-> reset.stats, save |-> reset.save,
         reply |-> [op |-> op, status |-> 200, kind |-> "success",
                    users |-> Cardinality(reset.stats.users),
                    messages |-> reset.stats.messages,
                    pages |-> Len(bd), files |-> Cardinality(DOMAIN fd),
                    todayUsers |-> Cardinality(reset.stats.todayUsers),
                    todayMessages |-> reset.stats.todayMessages,
                    uptime |-> t - reset.stats.startDate]]

ReqStats(ops) ==
    \E op \in ops :
        LET out == Snapshot(variant, op, botData, filesData, stats, now)
        IN  /\ stats' = out.stats
            /\ saves' = out.save
            /\ last' = out.reply
            /\ UNCHANGED <<variant, botData, filesData, now, calls, uploads>>
            /\ Persist
            /\ Running

-----------------------------------------------------------------------------
(* Persistent store: loadData *)

Loaded(bd, fd, st, save) == [botData |-> bd, filesData |-> fd, stats |-> st, save |-> save]

\* a load that restores the all-time values and opens a new daily window
LoadStats_NewDay(v, st, file, t) ==
    IF file.state = "ok" /\ file.val.users.ok
    THEN [stats |-> [NewStats(t) EXCEPT !.users = file.val.users.val,
                                        !.messages = file.val.messages],
          save |-> 0]
    ELSE [stats |-> st, save |-> 0]

\* the try block that loads the stats document: the assignments run in
\* order until one throws; resetDailyStats() runs after the last
LoadStats(v, st, file, t) ==
    IF file.state = "missing" THEN [stats |-> NewStats(t), save |-> 0]
    ELSE IF file.state = "unreadable" THEN [stats |-> st, save |-> 0]
    ELSE LET d == file.val
         IN  IF ~d.users.ok THEN [stats |-> st, save |-> 0]
             ELSE IF ~d.todayUsers.ok
             THEN [stats |-> [st EXCEPT !.users = d.users.val, !.messages = d.messages],
                   save |-> 0]
             ELSE ResetDailyStats(v, [users |-> d.users.val, messages |-> d.messages,
                                      todayUsers |-> d.todayUsers.val,
                                      todayMessages |-> d.todayMessages,
                                      startDate |-> IF d.startDate.has THEN d.startDate.val
                                                    ELSE t,
                                      dailyReset |-> d.dailyReset], t)

\* a load with one try block around the three documents: the first missing
\* or unreadable file ends it
LoadData_OneTry(v, disk, t) ==
    LET bd == IF disk.pages.state = "ok" THEN disk.pages.val ELSE <<>>
        fd == IF disk.pages.state = "ok" /\ disk.files.state = "ok"
              THEN disk.files.val ELSE <<>>
        st == IF disk.pages.state = "ok" /\ disk.files.state = "ok"
              THEN LoadStats(v, NewStats(t), disk.stats, t)
              ELSE [stats |-> NewStats(t), save |-> 0]
    IN  Loaded(bd, fd, st.stats, st.save)

\* loadData() at instant t in a fresh process, whose registries are {} and
\* whose stats are the initial ones
LoadData(v, disk, t) ==
    LET bd == IF disk.pages.state = "ok" THEN disk.pages.val ELSE <<>>
        fd == IF disk.files.state = "ok" THEN disk.files.val ELSE <<>>
        st == LoadStats(v, NewStats(t), disk.stats, t)
    IN  Loaded(bd, fd, st.stats, st.save)

\* what the three files may hold when the process starts
PagesFileInputs == {NoFile, BadFile, OkFile(<<[key |-> "promo", page |-> [title |-> "Promo", message |-> "Hi", buttons |-> EmptyArray]]>>)}
FilesFileInputs == {NoFile, BadFile, OkFile(<<>>)}
StatsFileInputs ==
    {NoFile, BadFile,
     OkFile(StatsDoc(ListOf({"c1"}), 1, ListOf({"c1"}), 1, DateOf(0), 0)),
     OkFile(StatsDoc(NotAList, 1, ListOf({"c1"}), 1, DateOf(0), 0)),
     OkFile(StatsDoc(ListOf({"c1"}), 1, NotAList, 1, DateOf(0), 0))}
DiskInputs == [pages : PagesFileInputs, files : FilesFileInputs, stats : StatsFileInputs]

\* the process starts anew and loads what the disk holds
Boot(disks) ==
    \E disk \in disks :
        LET out == LoadData(variant, disk, now)
        IN  /\ variant = "webhook"
            /\ botData' = out.botData
            /\ filesData' = out.filesData
            /\ stats' = out.stats
            /\ saves' = out.save
            /\ calls' = <<>>
            /\ uploads' = <<>>
            /\ last' = [op |-> "load", disk |-> disk, at |-> now]
            /\ UNCHANGED <<variant, now>>
            /\ Persist
            /\ UNCHANGED process

\* a file a killed process was writing: as it was, or cut short
Torn(file, torn) == IF torn THEN BadFile ELSE file

\* the files a killed process leaves: those its saveData() calls were writing
\* may be cut short
Left(torn) ==
    LET writing == {writers[i].doc : i \in 1..Len(writers)}
    IN  [followed |-> TRUE,
         pages |-> IF "pages" \in writing THEN Torn(store.pages, torn) ELSE store.pages,
         files |-> IF "files" \in writing THEN Torn(store.files, torn) ELSE store.files,
         stats |-> IF "stats" \in writing THEN Torn(store.stats, torn) ELSE store.stats]

\* the process is stopped and started again: the new process loads the files
\* the old one left; the handlers and saves in flight are gone
Restart ==
    \E torn \in BOOLEAN :
        LET left == Left(torn)
            out  == LoadData(variant, left, now)
        IN  /\ variant = "webhook"
            /\ store.followed
            /\ botData' = out.botData
            /\ filesData' = out.filesData
            /\ stats' = out.stats
            /\ saves' = out.save
            /\ calls' = <<>>
            /\ uploads' = <<>>
            /\ last' = [op |-> "restart", at |-> now, loaded |-> left.stats,
                        n |-> IF last.op = "restart" THEN 1 - last.n ELSE 0]
            /\ store' = left
            /\ writers' = IF out.save >= 1 THEN <<Writer(out.botData, out.stats)>> ELSE <<>>
            /\ UNCHANGED <<variant, now>>
            /\ UNCHANGED process

\* node evaluates the module
Launch ==
    /\ process.state = "starting"
    /\ process' = Evaluate(variant, process)
    /\ last' = [op |-> "launch"]
    /\ saves' = 0
    /\ UNCHANGED <<variant, botData, filesData, stats, now, calls, uploads, store, writers>>

\* loadData() returns and its .then calls app.listen
LoadEnd ==
    LET out == LoadData(variant, store, now)
    IN  /\ process.state = "loading"
        /\ process' = [process EXCEPT !.state = "serving", !.loaded = TRUE]
        /\ botData' = out.botData
        /\ filesData' = out.filesData
        /\ stats' = out.stats
        /\ saves' = out.save
        /\ last' = [op |-> "load", disk |-> store, at |-> now]
        /\ UNCHANGED <<variant, now, calls, uploads>>
        /\ Persist

-----------------------------------------------------------------------------
(* Specifications *)

\* the admin creates, reads, updates and deletes pages
NextPages ==
    \/ ReqGetPage({"promo", "constructor"})
    \/ ReqPostPage({"promo", "constructor", Undef}, PageDataInputs)
    \/ ReqPutPage({"promo", "constructor"}, BodyInputs)
    \/ ReqDeletePage({"promo", "constructor"})

SpecPages == Init /\ [][NextPages]_vars

\* the admin creates the page "promo" and edits its buttons
NextButtons ==
    \/ ReqPostPage({"promo"}, {PageData("Promo", "Hi", NoButtons)})
    \/ ReqPostButton({"promo"}, ButtonInputs)
    \/ ReqDeleteButton({"promo"})

SpecButtons == Init /\ [][NextButtons]_vars

\* users talk to the bot over two days while the admin adds and removes the
\* main page
NextChat ==
    \/ Tick
    \/ Start
    \/ CallbackPolling({"page_main_page", "main_page", "text_hello", "zzz"})
    \/ CallbackBegin({"page_main_page", "main_page", "text_hello", "zzz"})
    \/ CallbackAckFailed
    \/ CallbackAcked
    \/ ReqPostPage({"main_page"}, {PageData("Promo", "Hi", NoButtons)})
    \/ ReqDeletePage({"main_page"})

SpecChat == Init /\ [][NextChat]_vars

\* users press file buttons while the admin uploads and deletes a file
NextDelivery ==
    \/ CallbackPolling({"file_1001", "file_999", "1001", "999"})
    \/ CallbackBegin({"file_1001", "file_999", "1001", "999"})
    \/ CallbackAckFailed
    \/ CallbackAcked
    \/ CallbackDelivered
    \/ ReqUploadBegin(UploadInputs)
    \/ ReqUploadEnd({"1001"})
    \/ ReqDeleteFile({"1001", "999"})

SpecDelivery == Init /\ [][NextDelivery]_vars

\* documents an import may carry besides the one just exported
DocInputs ==
    {NotJson,
     Doc(Present(<<>>), Absent, NoDocStats),
     Doc(Absent, Present(<<>>), NoDocStats)}

\* the admin edits a page, its buttons and the files, exports and imports
NextBackup ==
    \/ ReqPostPage({"promo"}, {PageData("Promo", "Hi", NoButtons)})
    \/ ReqPostButton({"promo"}, {BGo})
    \/ ReqUploadBegin({NoUpload, [has |-> TRUE, name |-> "a.bin", type |-> "image/png"]})
    \/ ReqUploadEnd({"1001"})
    \/ ReqDeleteFile({"1001"})
    \/ ReqExport
    \/ ReqImport(DocInputs)

SpecBackup == Init /\ [][NextBackup]_vars

\* the process is started over and over on disks of every kind, between
\* /start commands
NextLoad ==
    \/ Boot(DiskInputs)
    \/ Tick
    \/ Start

SpecLoad == Init /\ [][NextLoad]_vars

\* users press page, contact, text and unknown buttons, edits get rejected,
\* while the admin adds and removes the main page
FallbackData == {"page_main_page", "contact", "text_hello", "text_", "zzz"}

NextFallback ==
    \/ CallbackPolling(FallbackData)
    \/ CallbackBegin(FallbackData)
    \/ CallbackAckFailed
    \/ CallbackAcked
    \/ EditRejected
    \/ ReqPostPage({"main_page"}, {PageData("Promo", "Hi", NoButtons)})
    \/ ReqDeletePage({"main_page"})

SpecFallback == Init /\ [][NextFallback]_vars

\* users start the bot over two days while the admin creates a page, uploads
\* a file, reads the statistics and clears everything
NextStats ==
    \/ Tick
    \/ Start
    \/ ReqPostPage({"promo"}, {PageData("Promo", "Hi", NoButtons)})
    \/ ReqUploadBegin({[has |-> TRUE, name |-> "a.bin", type |-> "image/png"]})
    \/ ReqUploadEnd({"1001"})
    \/ ReqStats({"stats", "detailedStats"})
    \/ ReqClearAll

SpecStats == Init /\ [][NextStats]_vars

\* buttons that lead to the page promo and to the file 1001
BPromo == Button("Promo", "page_promo", Undef)
BFile == Button("File", "file_1001", Undef)
PressData == {"page_promo", "file_1001"}

\* the admin builds a menu whose buttons lead to a page and to a file, then
\* deletes the page and the file while users press the buttons
NextDangling ==
    \/ ReqPostPage({"main_page", "promo"}, {PageData("Menu", "Hi", ArrayOf(<< <<BPromo, BFile>> >>))})
    \/ ReqDeletePage({"promo"})
    \/ ReqUploadBegin({[has |-> TRUE, name |-> "a.bin", type |-> "image/png"]})
    \/ ReqUploadEnd({"1001"})
    \/ ReqDeleteFile({"1001"})
    \/ CallbackBegin(PressData)
    \/ CallbackAckFailed
    \/ CallbackAcked
    \/ CallbackDelivered

SpecDangling == Init /\ [][NextDangling]_vars

\* a deployment whose files are followed: nothing is saved yet
InitSave ==
    /\ variant \in {"webhook", "polling"}
    /\ botData = IF variant = "webhook" THEN <<>> ELSE DefaultPages
    /\ filesData = <<>>
    /\ now = 0
    /\ stats = NewStats(0)
    /\ calls = <<>>
    /\ uploads = <<>>
    /\ last = NoStep
    /\ saves = 0
    /\ store = EmptyDisk
    /\ writers = <<>>
    /\ process = Serving

\* users start the bot and press a button over two days while the admin
\* creates a page; the saves run in the background
NextSave ==
    \/ Tick
    \/ Start
    \/ CallbackBegin({"zzz"})
    \/ CallbackAckFailed
    \/ CallbackAcked
    \/ ReqPostPage({"promo"}, {PageData("Promo", "Hi", NoButtons)})
    \/ WriteDone

SpecSave == InitSave /\ [][NextSave]_vars

\* users start the bot over two days and the process is restarted
NextRestart ==
    \/ Tick
    \/ Start
    \/ WriteDone
    \/ Restart

SpecRestart == InitSave /\ [][NextRestart]_vars

\* a process about to start, with or without its environment variables
InitStartup ==
    /\ variant \in {"webhook", "polling"}
    /\ botData = IF variant = "webhook" THEN <<>> ELSE DefaultPages
    /\ filesData = <<>>
    /\ now = 0
    /\ stats = NewStats(0)
    /\ calls = <<>>
    /\ uploads = <<>>
    /\ last = NoStep
    /\ saves = 0
    /\ store = EmptyDisk
    /\ writers = <<>>
    /\ process \in {Process("starting", token, url, FALSE) : token, url \in BOOLEAN}

\* the process starts; users start the bot and the admin reads and creates
\* a page
NextStartup ==
    \/ Launch
    \/ LoadEnd
    \/ Start
    \/ ReqGetPage({"main_page", "promo"})
    \/ ReqPostPage({"promo"}, {PageData("Promo", "Hi", NoButtons)})
    \/ WriteDone

SpecStartup == InitStartup /\ [][NextStartup]_vars

\* Date.now().toString() at the clock reading t
UploadId(t) == <<"1000", "1001", "1002", "1003", "1004">>[t + 1]

\* the admin uploads files while time passes: an upload that ends takes the
\* clock reading as the id of its record
NextUploads ==
    \/ Tick
    \/ ReqUploadBegin(UploadInputs)
    \/ ReqUploadEnd({UploadId(now)})
    \/ ReqDeleteFile({UploadId(now)})

SpecUploads == Init /\ [][NextUploads]_vars

\* the backup GET /api/export of src/index.js gives after one /start:
\* stats.totalUsers is the number of users
OlderExport ==
    ExportDoc("polling", DefaultPages, <<>>, CountStart(NewStats(0), "c1"))

\* the backup of a store that holds nothing yet
EmptyExport == ExportDoc("webhook", <<>>, <<>>, NewStats(0))

\* users start the bot and press buttons over two days while the admin
\* exports, imports backups and clears everything
NextImport ==
    \/ Tick
    \/ Start
    \/ CallbackPolling({"zzz"})
    \/ CallbackBegin({"zzz"})
    \/ CallbackAcked
    \/ CallbackAckFailed
    \/ ReqExport
    \/ ReqImport({NotJson, OlderExport, EmptyExport})
    \/ ReqClearAll

SpecImport == Init /\ [][NextImport]_vars

\* users press a file button while the admin uploads and deletes files and
\* clears everything: handlers suspended at an await resume in any order
NextInterleave ==
    \/ Tick
    \/ CallbackBegin({"file_1000"})
    \/ CallbackAckFailed
    \/ CallbackAcked
    \/ CallbackDelivered
    \/ ReqUploadBegin({[has |-> TRUE, name |-> "a.bin", type |-> "image/png"],
                       [has |-> TRUE, name |-> "b.bin", type |-> "application/pdf"]})
    \/ ReqUploadEnd({UploadId(now)})
    \/ ReqDeleteFile({UploadId(now)})
    \/ ReqClearAll

SpecInterleave == Init /\ [][NextInterleave]_vars

\* buttons the admin panel may send: one payload, none, or both
BBare == Button("Bare", Undef, Undef)
BBoth == Button("Both", "page_main_page", "https://example.org")

\* the admin builds the main page button by button while users open it and
\* press what it shows
NextRender ==
    \/ ReqPostPage({"main_page"}, {PageData("Home", "Hi", NoButtons)})
    \/ ReqPostButton({"main_page"}, {BGo, BSite, BBare, BBoth})
    \/ ReqDeleteButton({"main_page"})
    \/ Start
    \/ CallbackPolling({"photos_page", "photo_1"})
    \/ CallbackBegin({"page_main_page", Undef})
    \/ CallbackAckFailed
    \/ CallbackAcked

SpecRender == Init /\ [][NextRender]_vars

-----------------------------------------------------------------------------
(* Claims *)

\* page keys handed to showPage; "constructor" is a member of Object.prototype
RenderKeys == {"main_page", "promo", "gone", "constructor"}

\* C1: for every page key that is not in the Page Registry, every chat and
\* every message id (given or not), showPage sends the "page not found"
\* notice to the chat as its only transport call and does not throw.
C1_RenderMissingPageSendsNotice ==
    \A k \in RenderKeys, c \in Chats, m \in MessageIds \cup {Undef} :
        ~HasOwn(botData, k) =>
            ShowPage(variant, botData, c, k, m) = Ran(<<Send(c, Notice("pageNotFound"))>>)

\* the keys a reference map holds after a create request: the key is added
\* when the request is well formed and the key is absent
RefCreate(keys, id, pd) ==
    IF id # Undef /\ pd.def /\ pd.title # Undef /\ pd.message # Undef /\ id \notin keys
    THEN keys \cup {id} ELSE keys

\* C2: after any create, update or delete request on the Page Registry,
\* accepted or rejected, the registry's key set is the one a reference map
\* would have: create adds the key only if it is absent, update never
\* changes the key set, delete removes the key.
C2_KeySetFollowsReferenceMap ==
    /\ \A id \in PageIds \cup {Undef}, pd \in PageDataInputs :
          LET after == Keys(PostPage(variant, botData, id, pd).data)
          IN  /\ Keys(botData) \subseteq after
              /\ after \subseteq Keys(botData) \cup {id}
              /\ RefCreate(Keys(botData), id, pd) \subseteq after
    /\ \A id \in PageIds, body \in BodyInputs :
          Keys(PutPage(variant, botData, id, body).data) = Keys(botData)
    /\ \A id \in PageIds :
          Keys(DeletePage(variant, botData, id).data) = Keys(botData) \ {id}

\* a step that handles an inbound interaction: only those count a message
Interaction == stats'.messages = stats.messages + 1

\* C3: when lastResetDay differs from the current calendar day, the first
\* interaction handled empties the daily window before it records itself:
\* right after it todayMessageCount = 1, lastResetDay is the current day and
\* todayUserIds holds nobody but the chat of that interaction.
C3_FirstInteractionOfDayCountsOne ==
    [][(Interaction /\ stats.dailyReset # DateString(now)) =>
          /\ stats'.todayMessages = 1
          /\ stats'.dailyReset = DateString(now)
          /\ stats'.todayUsers \subseteq {last'.chat}]_vars

\* an interaction was just recorded on a new day, after messages of the day before
C3_Witness ==
    /\ last.op \in {"start", "callback"}
    /\ stats.messages = 2
    /\ stats.todayMessages = 1
    /\ stats.dailyReset = DateString(now)
    /\ stats.dailyReset # DateString(0)

\* C4: in every reachable state, an export followed at once by an import of
\* the exported document leaves the Page Registry and the File Registry as
\* they were before the export.
C4_ExportThenImportRestoresRegistries ==
    variant = "webhook" =>
        LET st  == ResetDailyStats(variant, stats, now).stats
            doc == ExportDoc(variant, botData, filesData, st)
            out == ImportDoc(variant, botData, filesData, st, doc, now)
        IN  out.botData = botData /\ out.filesData = filesData

\* the positions of a button grid that hold a button
Positions(arr) ==
    {rc \in Indices(arr) \X (0..(MaxButtons + 1)) :
        IsRowAt(arr, rc[1]) /\ rc[2] < Len(arr.at[rc[1]].items)}

\* row `after` is row `before` without its button c, the others in order
RowWithout(before, c, after) ==
    /\ Len(after) = Len(before) - 1
    /\ \A j \in 1..Len(after) : after[j] = before[IF j <= c THEN j ELSE j + 1]

\* grid `after` is grid `before` without its element r, the others in order
GridWithout(before, r, after) ==
    /\ after.def
    /\ after.length = before.length - 1
    /\ \A k \in Indices(after) :
          LET from == IF k < r THEN k ELSE k + 1
          IN  /\ k \in DOMAIN after.at <=> from \in DOMAIN before.at
              /\ k \in DOMAIN after.at => after.at[k] = before.at[from]

C6_CreateThenReadReturnsPage ==
    \A id \in PageIds, buttons \in {EmptyArray, NoButtons} :
        LET out == PostPage(variant, botData, id, PageData("Promo", "Hi", buttons))
            got == GetPage(out.data, id)
        IN  (~HasOwn(botData, id) /\ out.status = 200) =>
                /\ got.status = 200
                /\ got.page = [title |-> "Promo", message |-> "Hi", buttons |-> EmptyArray]

\* the button grid of a page as the add-button handler sees it
GridOf(page) == IF page.buttons.def THEN page.buttons ELSE EmptyArray

\* C7: adding a button to a page with n rows: with 0 <= rowIndex < n the
\* button goes to the end of that row, the number of rows and the other
\* rows stay; with rowIndex omitted or outside 0..n-1 the page has n+1 rows
\* afterwards, the first n as before and the last holding only the new button.
C7_AddButtonAppendsOrOpensLastRow ==
    \A id \in Keys(botData), b \in {BGo, BSite}, rowIndex \in RowIndexInputs :
        LET arr   == GridOf(Get(botData, id))
            n     == arr.length
            out   == PostButton(variant, botData, id, b, rowIndex)
            after == Get(out.data, id).buttons
        IN  /\ out.status = 200
            /\ after.def
            /\ IF rowIndex.has /\ rowIndex.n \in 0..(n - 1)
               THEN IsRowAt(arr, rowIndex.n) =>
                       /\ after.length = n
                       /\ DOMAIN after.at = DOMAIN arr.at
                       /\ \A k \in DOMAIN arr.at \ {rowIndex.n} : after.at[k] = arr.at[k]
                       /\ after.at[rowIndex.n] = Row(Append(arr.at[rowIndex.n].items, b))
               ELSE /\ after.length = n + 1
                    /\ DOMAIN after.at = DOMAIN arr.at \cup {n}
                    /\ \A k \in DOMAIN arr.at : after.at[k] = arr.at[k]
                    /\ after.at[n] = Row(<<b>>)

\* the notices that tell the user a file cannot be had
FileNotices == {Notice("fileUnavailable"), Notice("fileError")}

\* the callback handler has just ended for a payload file_<id> whose <id> is
\* absent from the File Registry or whose delivery failed
FileCallbackFailed ==
    /\ last' # last
    /\ last'.op = "callback"
    /\ last'.done
    /\ StartsWith(JsString(last'.data), "file_")
    /\ \/ Substring5(JsString(last'.data)) \notin DOMAIN filesData'
       \/ last'.delivery = "failed"

\* C8: when the callback handler ends for a payload file_<id> whose <id> is
\* absent from the File Registry or whose delivery failed, it has sent the
\* chat a "file unavailable" notice as a new message, has edited no
\* message, has not thrown, and both registries are as before.
C8_FileFallbackSendsNotice ==
    [][FileCallbackFailed =>
          /\ ~last'.threw
          /\ \E i \in 1..Len(last'.ops) :
                \E notice \in FileNotices : last'.ops[i] = Send(last'.chat, notice)
          /\ \A i \in 1..Len(last'.ops) : last'.ops[i].op # "editMessageText"
          /\ botData' = botData
          /\ filesData' = filesData]_vars

\* a handler outcome that rejects with `status` and changes nothing
Rejected(out, before, status) ==
    out.status = status /\ out.data = before /\ out.save = 0

\* C9: a rejected registry request changes no registry and saves nothing;
\* creating a page under an existing key is rejected with 400; reading,
\* updating or deleting a page or a file under an absent key is rejected
\* with 404.
C9_RejectedRequestsChangeNothing ==
    variant = "webhook" =>
        /\ \A id \in PageIds \cup {Undef}, pd \in PageDataInputs :
              LET out == PostPage(variant, botData, id, pd)
              IN  /\ out.status # 200 => Rejected(out, botData, out.status)
                  /\ HasOwn(botData, id) => Rejected(out, botData, 400)
        /\ \A id \in PageIds \ Keys(botData) :
              /\ GetPage(botData, id).status = 404
              /\ \A body \in BodyInputs : Rejected(PutPage(variant, botData, id, body), botData, 404)
              /\ Rejected(DeletePage(variant, botData, id), botData, 404)
        /\ \A id \in (FileIds \cup {"999", "constructor"}) \ DOMAIN filesData :
              /\ Rejected(DeleteFile(variant, filesData, id), filesData, 404)
              /\ PreviewFile(filesData, id).status = 404

\* C10: a delete-button request whose rowIndex names no existing row of the
\* page (or is omitted) or whose buttonIndex names no existing button of
\* that row (or is omitted) is answered with 404 and leaves the page's
\* buttons as they were.
C10_DeleteButtonValidatesIndices ==
    \A id \in Keys(botData) :
        LET arr == Get(botData, id).buttons
        IN  (variant = "webhook" /\ arr.def) =>
            \A rowIndex \in RowIndexInputs \cup {Named("map")}, buttonIndex \in ButtonIndexInputs :
                LET named == rowIndex.has /\ rowIndex.name = "" /\ buttonIndex.has
                             /\ buttonIndex.name = ""
                             /\ <<rowIndex.n, buttonIndex.n>> \in Positions(arr)
                IN  ~named =>
                        Rejected(DeleteButton(variant, botData, id, rowIndex, buttonIndex),
                                 botData, 404)

\* a transport call that creates a message in the chat
CreatesMessage(call) == call.op # "answerCallbackQuery" /\ call.op # "editMessageText"

\* C11: a page_<key> callback makes no transport call besides the
\* acknowledgement and edits of the message whose id came with the event,
\* in the chat it came from; a callback creates a message only for a file_
\* or a text_ payload.
C11_NavigationEditsInPlace ==
    (variant = "webhook" /\ last.op = "callback") =>
        \A i \in 1..Len(last.ops) :
            LET call == last.ops[i]
            IN  /\ StartsWith(last.data, "page_") =>
                      \/ call = Ack
                      \/ /\ call.op = "editMessageText"
                         /\ call.chat = last.chat
                         /\ call.mid = last.mid
                /\ CreatesMessage(call) =>
                      StartsWith(last.data, "file_") \/ StartsWith(last.data, "text_")

\* a page_main_page callback has just rendered the stored page into the
\* message it came from
C11_Witness ==
    /\ variant = "webhook"
    /\ last.op = "callback"
    /\ last.done
    /\ last.data = "page_main_page"
    /\ HasOwn(botData, "main_page")
    /\ Len(last.ops) = 2
    /\ last.ops[2].op = "editMessageText"
    /\ last.ops[2].body.kind = "page"

\* C12: every callback handler attempts the acknowledgement first, and when
\* the acknowledgement fails the handler still performs its dispatch action
\* and does not throw.
C12_AckFailureIsIgnored ==
    (last.op = "callback" /\ last.done) =>
        /\ last.ops[1] = Ack
        /\ last.ack = "failed" => (~last.threw /\ Len(last.ops) >= 2)

\* C13: an interaction from chat c leaves c in both user sets, both message
\* counters one greater than after the daily roll that preceded the
\* recording, and has requested a save.
C13_InteractionIsRecorded ==
    [][Interaction =>
          LET rolled == ResetDailyStats(variant, stats, now).stats
          IN  /\ last'.chat \in stats'.users
              /\ last'.chat \in stats'.todayUsers
              /\ stats'.messages = rolled.messages + 1
              /\ stats'.todayMessages = rolled.todayMessages + 1
              /\ saves' >= 1]_vars

\* the documents C14 imports: one registry key alone, or only statistics
\* whose totalUsers is a number, as the polling variant exports them
PartialDocs ==
    {Doc(Present(<<>>), Absent, NoDocStats),
     Doc(Absent, Present(<<>>), NoDocStats),
     Doc(Absent, Absent, [has |-> TRUE, isList |-> FALSE, totalUsers |-> {},
                          count |-> 1, totalMessages |-> 1, startDate |-> NoDate])}

\* C14: an import replaces each registry whose key the document has by the
\* document's value, leaves each registry whose key is absent (statistics
\* included) as it was, and triggers a save.
C14_ImportReplacesPresentKeysOnly ==
    \A doc \in PartialDocs :
        LET out == ImportDoc(variant, botData, filesData, stats, doc, now)
        IN  /\ out.botData = IF doc.botData.has THEN doc.botData.val ELSE botData
            /\ out.filesData = IF doc.filesData.has THEN doc.filesData.val ELSE filesData
            /\ ~doc.stats.has => out.stats = stats
            /\ out.save >= 1

\* the statistics a well-formed stats document d yields at instant t: the
\* all-time figures as stored, the daily ones only if stored the same day
StatsFrom(d, t) ==
    [users |-> d.users.val, messages |-> d.messages,
     todayUsers |-> IF d.dailyReset = DateString(t) THEN d.todayUsers.val ELSE {},
     todayMessages |-> IF d.dailyReset = DateString(t) THEN d.todayMessages ELSE 0,
     startDate |-> IF d.startDate.has THEN d.startDate.val ELSE t,
     dailyReset |-> DateString(t)]

WellFormed(file) == file.state = "ok" /\ file.val.users.ok /\ file.val.todayUsers.ok

\* C15: after a load, a document whose file is missing is its empty default
\* and a document whose file is there and well formed holds what the file
\* holds, whatever the state of the other two files.
C15_MissingFileDefaultsThatDocumentAlone ==
    last.op = "load" =>
        LET disk == last.disk
        IN  /\ disk.pages.state = "missing" => botData = <<>>
            /\ disk.files.state = "missing" => filesData = <<>>
            /\ disk.stats.state = "missing" => stats = NewStats(last.at)
            /\ disk.pages.state = "ok" => botData = disk.pages.val
            /\ disk.files.state = "ok" => filesData = disk.files.val
            /\ WellFormed(disk.stats) => stats = StatsFrom(disk.stats.val, last.at)

\* the pages file was missing and the other two documents were loaded, the
\* stats on a later day than they were saved
C15_Witness ==
    /\ last.op = "load"
    /\ last.disk.pages.state = "missing"
    /\ last.disk.files.state = "ok"
    /\ WellFormed(last.disk.stats)
    /\ botData = <<>>
    /\ stats.users = {"c1"}
    /\ stats.todayUsers = {}
    /\ saves = 1

\* C16: after a load, a document whose file could not be read or parsed, or
\* a stats document whose fields have the wrong shape, is its empty default.
C16_UnreadableFileDefaultsWholeDocument ==
    last.op = "load" =>
        LET disk == last.disk
        IN  /\ disk.pages.state = "unreadable" => botData = <<>>
            /\ disk.files.state = "unreadable" => filesData = <<>>
            /\ (disk.stats.state = "unreadable"
                \/ (disk.stats.state = "ok" /\ ~WellFormed(disk.stats)))
                  => stats = NewStats(last.at)

\* a step that changes the Page Registry, the File Registry or the statistics
Mutates == botData' # botData \/ filesData' # filesData \/ stats' # stats

\* C17: every step that changes the Page Registry, the File Registry or the
\* statistics calls saveData() at least once.
C17_EveryMutationSaves ==
    [][Mutates => saves' >= 1]_vars

\* C18: a rejected edit of the callback handler is never left unhandled.
C18_EditFailuresAreSwallowed ==
    last.op = "callback" => last.rejected # "unhandled"

\* the payloads with the prefix text_
TextData == {d \in FallbackData : StartsWith(d, "text_")}

\* C19: when the callback handler ends for a payload text_<literal>, it has
\* not thrown and its transport calls are the acknowledgement and one new
\* message to the originating chat that carries <literal>, and no edit.
C19_TextPayloadIsSentVerbatim ==
    (variant = "webhook" /\ last.op = "callback" /\ last.done /\ last.data \in TextData) =>
        /\ ~last.threw
        /\ last.ops = <<Ack, Send(last.chat, Literal(Substring5(last.data)))>>

\* the payloads with none of the prefixes file_, page_, text_
UnknownData ==
    {d \in FallbackData :
        ~StartsWith(d, "file_") /\ ~StartsWith(d, "page_") /\ ~StartsWith(d, "text_")}

\* the callback handler has just ended for a payload of UnknownData
UnknownCallbackEnded ==
    /\ last' # last
    /\ last'.op = "callback"
    /\ last'.done
    /\ last'.rejected = "none"
    /\ last'.data \in UnknownData

\* C20: when the callback handler ends for a payload with none of the
\* prefixes file_, page_, text_, it has not thrown, it has edited the
\* message the event came from with the "unknown control" notice, it has
\* created no message, and the registries are as before.
C20_UnknownPayloadEditsNotice ==
    [][UnknownCallbackEnded =>
          /\ ~last'.threw
          /\ \E i \in 1..Len(last'.ops) :
                /\ last'.ops[i].op = "editMessageText"
                /\ last'.ops[i].chat = last'.chat
                /\ last'.ops[i].mid = last'.mid
                /\ last'.ops[i].body = Notice("unknownButton")
          /\ \A i \in 1..Len(last'.ops) : ~CreatesMessage(last'.ops[i])
          /\ botData' = botData
          /\ filesData' = filesData]_vars

\* C21: right after POST /api/clear-all the Page Registry has no pages, the
\* File Registry has no files, and the statistics have empty user sets and
\* zero message counters.
C21_ClearAllWipesEverything ==
    last.op = "clearAll" =>
        /\ Keys(botData) = {}
        /\ DOMAIN filesData = {}
        /\ stats.users = {} /\ stats.todayUsers = {}
        /\ stats.messages = 0 /\ stats.todayMessages = 0

\* a step that answers a statistics request
Snapshotted == last'.op \in {"stats", "detailedStats"} /\ now' = now

\* C24: a statistics request changes neither the all-time users, the
\* all-time message count, the start date, the Page Registry nor the File
\* Registry, and when the day of the last reset is not the current day it
\* reports 0 users and 0 messages for today.
C24_SnapshotOnlyRollsTheDay ==
    [][Snapshotted =>
          /\ stats'.users = stats.users
          /\ stats'.messages = stats.messages
          /\ stats'.startDate = stats.startDate
          /\ botData' = botData
          /\ filesData' = filesData
          /\ stats.dailyReset # DateString(now) =>
                (last'.todayUsers = 0 /\ last'.todayMessages = 0)]_vars

\* a statistics request on a new day has just rolled the day: it reports the
\* messages of the day before as all-time messages only
C24_Witness ==
    /\ last.op \in {"stats", "detailedStats"}
    /\ saves = 1
    /\ last.messages >= 1
    /\ last.users >= 1
    /\ last.todayMessages = 0
    /\ last.todayUsers = 0
    /\ stats.dailyReset = DateString(now)

\* a step of POST /api/upload: the check of the request or the end of the
\* transport call
UploadStep == last'.op = "upload" /\ now' = now

\* the file ids whose record the step added or replaced
Stored == {id \in DOMAIN filesData' : id \notin DOMAIN filesData \/ filesData'[id] # filesData[id]}

\* C22: an upload adds a record to the File Registry only when the transport
\* call has ended and returned a handle, and then answers 200; a request
\* rejected with 400 makes no transport call; an upload that answers 400 or
\* 500 leaves the File Registry unchanged.
C22_UploadStoresOnlyConfirmedFiles ==
    [][UploadStep =>
          /\ last'.status \in {0, 200, 400, 500}
          /\ Stored # {} =>
                /\ last'.status = 200
                /\ Len(uploads') < Len(uploads)
                /\ \A id \in Stored : filesData'[id].file_id # Undef
          /\ last'.status # 200 => filesData' = filesData
          /\ last'.status = 400 => uploads' = uploads]_vars

\* the step is the accepted update of the stored page `id` with `body`
Updated(id, body) ==
    /\ last'.op = "putPage"
    /\ last'.status = 200
    /\ now' = now
    /\ botData' = PutPage(variant, botData, id, body).data

\* C23: an accepted PUT /api/pages/:id on a stored page leaves every field
\* the body carries with the body's value and every other field of the page
\* as it was, and changes no other page and no file record.
C23_UpdateMergesBodyOverPage ==
    [][\A id \in Keys(botData), body \in BodyInputs :
          Updated(id, body) =>
              LET before == Get(botData, id)
                  after == Get(botData', id)
              IN  /\ after.title = IF body.title # Undef THEN body.title ELSE before.title
                  /\ after.message = IF body.message # Undef THEN body.message ELSE before.message
                  /\ after.buttons = IF body.buttons.def THEN body.buttons ELSE before.buttons
                  /\ Keys(botData') = Keys(botData)
                  /\ \A k \in Keys(botData) \ {id} : Get(botData', k) = Get(botData, k)
                  /\ filesData' = filesData]_vars

\* the page promo was created with a message and without buttons; an update
\* has since given it the title Sale and an empty grid and kept the message
C23_Witness ==
    /\ last.op = "putPage"
    /\ last.status = 200
    /\ HasOwn(botData, "promo")
    /\ Get(botData, "promo").title = "Sale"
    /\ Get(botData, "promo").message = "Hi"
    /\ Get(botData, "promo").buttons = EmptyArray

\* an admin deletion of a page or of a file has just been answered
Deleted == last' # last /\ last'.op \in {"deletePage", "deleteFile"}

\* the target of the payload of the ended callback is in no registry
Dangling(call) ==
    \/ StartsWith(call.data, "page_") /\ ~HasOwn(botData', Substring5(call.data))
    \/ StartsWith(call.data, "file_") /\ Substring5(call.data) \notin DOMAIN filesData'

\* the callback handler has just ended, without having waited for a file
\* delivery, for a button whose target is gone
DanglingPressEnded ==
    /\ last' # last
    /\ last'.op = "callback"
    /\ last'.done
    /\ last'.delivery = "none"
    /\ Dangling(last')

\* C25: deleting a page or a file changes no page that remains, and the
\* callback handler that ends for a button whose page or file is gone has
\* not thrown and has sent or edited in a "not available" notice.
C25_DanglingReferencesFailGracefully ==
    [][/\ Deleted => \A k \in Keys(botData') : Get(botData', k) = Get(botData, k)
       /\ DanglingPressEnded =>
             /\ ~last'.threw
             /\ \E i \in 1..Len(last'.ops) :
                   /\ last'.ops[i].op \in {"sendMessage", "editMessageText"}
                   /\ last'.ops[i].body \in {Notice("pageUnavailable"), Notice("fileUnavailable")}]_vars

\* the process has just been restarted
Restarted == last'.op = "restart" /\ last' # last

\* C26: when the process restarts on the day the stats file names as the day
\* of the last reset, the statistics after the load are the saved ones:
\* today's users and today's messages are not reset, and the all-time
\* values and the start date are restored.
C26_SameDayRestartKeepsDailyWindow ==
    [][(/\ Restarted
        /\ last'.loaded.state = "ok"
        /\ last'.loaded.val.dailyReset = DateString(now)) =>
          LET saved == last'.loaded.val
          IN  /\ stats'.todayUsers = saved.todayUsers.val
              /\ stats'.todayMessages = saved.todayMessages
              /\ stats'.users = saved.users.val
              /\ stats'.messages = saved.messages
              /\ stats'.startDate = saved.startDate.val
              /\ stats'.dailyReset = saved.dailyReset]_vars

\* a user started the bot at instant 0, the save ran to its end, and the
\* process restarted half a day later: today's window still counts the user
C26_Witness ==
    /\ last.op = "restart"
    /\ now = 1
    /\ last.loaded.state = "ok"
    /\ stats.todayMessages >= 1
    /\ stats.todayUsers # {}
    /\ stats.startDate = 0
    /\ StatsToSave(stats) = last.loaded.val

\* C28: resetDailyStats() on the day of the last reset changes nothing and
\* calls no save, so a second call right after a first changes nothing; on
\* another day it empties today's users, zeroes today's messages, sets the
\* day of the last reset to the current day and calls saveData(), and leaves
\* the all-time users, the all-time messages and the start date as they were.
C28_DailyRollChangesOnlyTheDailyWindow ==
    LET reset == ResetDailyStats(variant, stats, now)
    IN  /\ ResetDailyStats(variant, reset.stats, now) = [stats |-> reset.stats, save |-> 0]
        /\ stats.dailyReset = DateString(now) => reset = [stats |-> stats, save |-> 0]
        /\ stats.dailyReset # DateString(now) =>
              /\ reset.stats.todayUsers = {}
              /\ reset.stats.todayMessages = 0
              /\ reset.stats.dailyReset = DateString(now)
              /\ reset.save >= 1
              /\ reset.stats.users = stats.users
              /\ reset.stats.messages = stats.messages
              /\ reset.stats.startDate = stats.startDate

\* C29: no two saveData() calls in flight are writing the same file.
C29_OneWriterPerDocument ==
    \A i, j \in 1..Len(writers) : i # j => writers[i].doc # writers[j].doc

\* C30: when no save is in flight and a save has run to its end, each of the
\* three files holds the serialization of the registry in memory.
C30_DiskAgreesWithMemoryAtRest ==
    (variant = "webhook" /\ writers = <<>> /\ store.stats.state = "ok") =>
        /\ store.pages = OkFile(JsonPages(botData))
        /\ store.files = OkFile(filesData)
        /\ store.stats = OkFile(StatsToSave(stats))

\* a handler of a chat interaction or of an admin request has just run
Handles == last' # last /\ last'.op \notin {"none", "launch", "load"}

\* C27: a chat interaction or an admin request is handled only by a process
\* that had the bot token and the public address when it started and whose
\* initial loadData() has returned; a process that lacks the token or the
\* address exits and never serves.
C27_ServesOnlyAfterConfiguredStart ==
    [][/\ Handles => (process.token /\ process.url /\ process.loaded)
       /\ (~process'.token \/ ~process'.url) => process'.state \in {"starting", "exited"}]_vars

\* an upload has just been answered with success
Uploaded == UploadStep /\ last'.status = 200 /\ Len(uploads') < Len(uploads)

\* the upload answered before it was answered with success too, and no
\* upload has begun since: the two were in flight together
Concurrent == last.op = "upload" /\ last.status = 200

\* C31: of two uploads in flight together and both answered with success,
\* the second adds one record to the File Registry under an id that was not
\* in it, and leaves every record that was in it as it was.
C31_UploadIdsAreUnique ==
    [][(Concurrent /\ Uploaded) =>
          /\ Cardinality(DOMAIN filesData') = Cardinality(DOMAIN filesData) + 1
          /\ \A id \in DOMAIN filesData :
                id \in DOMAIN filesData' /\ filesData'[id] = filesData[id]]_vars

\* POST /api/import has just answered with an error
ImportFailed ==
    /\ last' # last
    /\ last'.op \in {"import", "importExported"}
    /\ last'.status # 200

\* C32: when POST /api/import answers with an error, the Page Registry, the
\* File Registry and the statistics are as they were before the request.
C32_FailedImportChangesNothing ==
    [][ImportFailed =>
          /\ botData' = botData
          /\ filesData' = filesData
          /\ stats' = stats]_vars

\* C37: today's users are all-time users, today's messages are no more than
\* the all-time messages, and today's users are no more than today's
\* messages.
C37_StatisticsAreConsistent ==
    /\ stats.todayUsers \subseteq stats.users
    /\ stats.todayMessages <= stats.messages
    /\ Cardinality(stats.todayUsers) <= stats.todayMessages

\* users started the bot, the admin exported and imported the backup: the
\* all-time values are restored and today's window is empty
C37_Witness ==
    /\ variant = "webhook"
    /\ last.op = "importExported"
    /\ last.status = 200
    /\ stats.users # {}
    /\ stats.messages >= 1
    /\ stats.todayUsers = {}
    /\ stats.todayMessages = 0

\* a callback handler suspended at an await has just resumed
CallbackResumed ==
    /\ calls' # calls
    /\ Len(calls') <= Len(calls)
    /\ last'.op = "callback"

\* C33: a handler that resumes after an await loses no update made to memory
\* while it was suspended: a resumed callback handler leaves the
\* registries and the statistics as they are, and an upload that resumes
\* after another upload in flight with it was answered keeps every record
\* of the File Registry and leaves the pages and the statistics as they are.
C33_ResumedHandlersLoseNoUpdate ==
    [][/\ CallbackResumed =>
             (botData' = botData /\ filesData' = filesData /\ stats' = stats)
       /\ (Concurrent /\ Uploaded) =>
             /\ botData' = botData
             /\ stats' = stats
             /\ \A id \in DOMAIN filesData :
                   id \in DOMAIN filesData' /\ filesData'[id] = filesData[id]]_vars

\* the buttons of an array of rows
ButtonsOf(arr) ==
    UNION {{arr.at[i].items[j] : j \in 1..Len(arr.at[i].items)} : i \in DOMAIN arr.at}

\* the buttons stored in the Page Registry
StoredButtons(bd) == UNION {ButtonsOf(GridOf(bd[i].page)) : i \in 1..Len(bd)}

\* C34: every button stored in the Page Registry has exactly one of url and
\* callback_data, never both and never neither.
C34_ButtonsCarryOnePayload ==
    \A b \in StoredButtons(botData) :
        b.def /\ ((b.url # Undef) # (b.callback_data # Undef))

\* the pages the last handler rendered
RenderedPages ==
    IF "ops" \in DOMAIN last
    THEN {last.ops[i].body : i \in {j \in 1..Len(last.ops) :
                                     /\ "body" \in DOMAIN last.ops[j]
                                     /\ last.ops[j].body.kind = "page"}}
    ELSE {}

IsUrlEntry(e) == "url" \in DOMAIN e /\ e.url # Undef

Prefixed(d) ==
    d # Undef /\ (StartsWith(d, "page_") \/ StartsWith(d, "file_") \/ StartsWith(d, "text_"))

\* pressing a button with payload d ends in the unknown-button fallback
\* (webhook) or in no reply at all (polling)
Undecoded(d) ==
    IF variant = "webhook"
    THEN Dispatch(botData, filesData, "c1", "m7", JsString(d)).run.ops
            = <<Edit("c1", "m7", Notice("unknownButton"), TRUE)>>
    ELSE DispatchPolling(botData, filesData, "c1", "m7", d).ops = <<Ack>>

\* C35: in every page a handler has rendered, an entry with a URL carries
\* the text and the URL of a stored button, and every other entry carries a
\* callback identifier with prefix page_, file_ or text_, so that pressing
\* it is decoded and does not reach the unknown-button fallback.
C35_RenderedButtonsAreDecodable ==
    \A body \in RenderedPages :
        \A e \in ButtonsOf(body.keyboard) :
            IF IsUrlEntry(e)
            THEN \E b \in StoredButtons(botData) : b.text = e.text /\ b.url = e.url
            ELSE Prefixed(e.callback_data) /\ ~Undecoded(e.callback_data)

\* a dense sequence of rows: no missing row, no property that is not
\* an element, no null row and no empty row
Dense(arr) ==
    /\ DOMAIN arr.at = Indices(arr)
    /\ \A i \in DOMAIN arr.at : ~arr.at[i].null /\ Len(arr.at[i].items) >= 1

\* the number of buttons stored in the registry
Buttons(bd) == [i \in 1..Len(bd) |-> ButtonCount(GridOf(bd[i].page))]

RECURSIVE Sum(_)
Sum(seq) == IF seq = <<>> THEN 0 ELSE Head(seq) + Sum(Tail(seq))

\* C36: after every add-button and delete-button request, whatever its
\* rowIndex and buttonIndex, the buttons of every page are a dense sequence
\* of non-empty rows, and a request answered with success has changed the
\* number of stored buttons by +1 (add) or by -1 (delete).
C36_ButtonGridStaysWellFormed ==
    [][(last' # last /\ last'.op \in {"postButton", "deleteButton"}) =>
          /\ \A i \in 1..Len(botData') : Dense(GridOf(botData'[i].page))
          /\ (last'.op = "postButton" /\ last'.status = 200) =>
                Sum(Buttons(botData')) = Sum(Buttons(botData)) + 1
          /\ (last'.op = "deleteButton" /\ last'.status = 200) =>
                Sum(Buttons(botData')) = Sum(Buttons(botData)) - 1]_vars

\* the /start handler has just run
Started == last'.op = "start" /\ stats' # stats

\* the page /start is to render: main_page, else the first page
InitialPage(bd) == IF HasOwn(bd, "main_page") THEN Get(bd, "main_page") ELSE bd[1].page

\* C38: every /start makes exactly one transport call, a sendMessage: the
\* rendering of main_page when that key exists, otherwise of the first page
\* of the registry, otherwise the "no pages" notice; and it leaves the Page
\* Registry and the File Registry as they are.
C38_StartSendsOneNewMessage ==
    [][Started =>
          /\ botData' = botData
          /\ filesData' = filesData
          /\ ~last'.threw
          /\ Len(last'.ops) = 1
          /\ last'.ops[1].op = "sendMessage"
          /\ last'.ops[1].chat = last'.chat
          /\ IF Len(botData) = 0
             THEN last'.ops[1].body = Notice("noPages")
             ELSE /\ last'.ops[1].body.kind = "page"
                  /\ last'.ops[1].body.title = InitialPage(botData).title
                  /\ last'.ops[1].body.message = InitialPage(botData).message]_vars

====
